---- MODULE Spec2Model ----
(***************************************************************************)
(* A model of boto3utils/s3.py: the S3 URL parser, the paginated lister,   *)
(* the inventory scanner, the request signer and the thin transport glue.  *)
(*                                                                         *)
(* A Python str is a sequence of symbols.  A symbol is one character       *)
(* ("s", "3", ":", "/", "a", ...) or, where only equality of a whole       *)
(* substring matters, one token standing for that substring: "T" and "Y"   *)
(* are today's and yesterday's '%Y-%m-%d' strings, "M" is the literal      *)
(* 'manifest.json'.                                                        *)
(***************************************************************************)
EXTENDS Integers, Sequences, FiniteSets, TLC

VARIABLES
    \* urlparse under test
    uBucket, uKey, uUrl, uRes,
    \* one run of the find generator against a scripted list_objects_v2
    fPages, fUrl, fSuffix, fPc, fParts, fToken, fResp, fIdx, fOut, fCalls,
    \* one run of the latest_inventory generator
    iUrl, iArgs, iListing, iSchema, iPc, iErr, iCalls, iSeen, iOut, iYieldIdx,
    \* the process: os.environ, upload's default 'extra' dict, the last call
    env, uploadDefaults, aCall, aRet, aCalls

uVars == <<uBucket, uKey, uUrl, uRes>>
fVars == <<fPages, fUrl, fSuffix, fPc, fParts, fToken, fResp, fIdx, fOut, fCalls>>
iVars == <<iUrl, iArgs, iListing, iSchema, iPc, iErr, iCalls, iSeen, iOut, iYieldIdx>>
aVars == <<env, uploadDefaults, aCall, aRet, aCalls>>
vars == <<uVars, fVars, iVars, aVars>>

(***************************************************************************)
(* Bounds of the model.                                                    *)
(***************************************************************************)
MaxBucketLen == 3
MaxKeyLen == 3
MaxExtraSlashes == 1
MaxPages == 3
MaxPageKeys == 2
MaxLines == 2

None == "None"

(***************************************************************************)
(* Python str operations.                                                  *)
(***************************************************************************)
Min(a, b) == IF a < b THEN a ELSE b

\* s[0:n]
Take(s, n) == SubSeq(s, 1, Min(n, Len(s)))

\* s[n:]
Drop(s, n) == SubSeq(s, n + 1, Len(s))

\* s.startswith(p); also s[:len(p)] == p
StartsWith(s, p) == Len(p) <= Len(s) /\ SubSeq(s, 1, Len(p)) = p

\* s.endswith(x)
EndsWith(s, x) == Len(x) <= Len(s) /\ SubSeq(s, Len(s) - Len(x) + 1, Len(s)) = x

\* s.replace(old, ''): every non-overlapping occurrence, leftmost first
RECURSIVE RemoveAll(_, _)
RemoveAll(s, old) ==
    IF s = <<>> THEN <<>>
    ELSE IF StartsWith(s, old) THEN RemoveAll(Drop(s, Len(old)), old)
    ELSE <<Head(s)>> \o RemoveAll(Tail(s), old)

\* s.split('/'): always at least one segment
RECURSIVE SplitSlash(_)
SplitSlash(s) ==
    IF \A i \in 1..Len(s) : s[i] # "/" THEN <<s>>
    ELSE LET i == CHOOSE j \in 1..Len(s) : s[j] = "/" /\ \A k \in 1..(j - 1) : s[k] # "/"
         IN  <<SubSeq(s, 1, i - 1)>> \o SplitSlash(Drop(s, i))

\* '/'.join(segs)
RECURSIVE JoinSlash(_)
JoinSlash(segs) ==
    IF segs = <<>> THEN <<>>
    ELSE IF Len(segs) = 1 THEN segs[1]
    ELSE segs[1] \o <<"/">> \o JoinSlash(Tail(segs))

NonEmpty(x) == x # <<>>

Scheme == <<"s", "3", ":", "/", "/">>

\* 's3://%s/%s' % (bucket, key)
S3Url(bucket, key) == Scheme \o bucket \o <<"/">> \o key

\* os.path.join(a, b) for a relative b
OpJoin(a, b) ==
    IF a = <<>> THEN b
    ELSE IF a[Len(a)] = "/" THEN a \o b
    ELSE a \o <<"/">> \o b

(***************************************************************************)
(* urlparse(url): the result dict, or the exception raised.                *)
(***************************************************************************)
Raised(e) == [err |-> e, bucket |-> <<>>, key |-> <<>>, filename |-> <<>>]

\* the text removed from the url before it is split (line 27)
SchemeRemoved(url) == RemoveAll(url, Scheme)

\* the scheme test cut short: url[0:2] != 's3'
urlparseShortTest(url) ==
    IF Take(url, 2) # <<"s", "3">> THEN Raised("InvalidS3Url")
    ELSE LET url_obj == SelectSeq(SplitSlash(SchemeRemoved(url)), NonEmpty)
         IN  IF url_obj = <<>> THEN Raised("IndexError")
             ELSE [err |-> None,
                   bucket |-> url_obj[1],
                   key |-> JoinSlash(Tail(url_obj)),
                   filename |-> IF Len(url_obj) > 1 THEN url_obj[Len(url_obj)] ELSE <<>>]
urlparse(url) ==
    IF Take(url, 5) # Scheme THEN Raised("InvalidS3Url")
    ELSE LET url_obj == SelectSeq(SplitSlash(SchemeRemoved(url)), NonEmpty)
         IN  IF url_obj = <<>> THEN Raised("IndexError")
             ELSE [err |-> None,
                   bucket |-> url_obj[1],
                   key |-> JoinSlash(Tail(url_obj)),
                   filename |-> IF Len(url_obj) > 1 THEN url_obj[Len(url_obj)] ELSE <<>>]

(***************************************************************************)
(* The variables of the parts a specification does not exercise stay at    *)
(* these values.                                                           *)
(***************************************************************************)
NotCalled == Raised("NotCalled")

IdleU == uBucket = <<>> /\ uKey = <<>> /\ uUrl = <<>> /\ uRes = NotCalled

IdleF ==
    /\ fPages = <<>> /\ fUrl = <<>> /\ fSuffix = <<>> /\ fPc = "idle"
    /\ fParts = NotCalled /\ fToken = 0 /\ fResp = None /\ fIdx = 0
    /\ fOut = <<>> /\ fCalls = <<>>

IdleI ==
    /\ iUrl = <<>> /\ iArgs = None /\ iListing = <<>> /\ iSchema = <<>>
    /\ iPc = "idle" /\ iErr = None /\ iCalls = <<>> /\ iSeen = <<>>
    /\ iOut = <<>> /\ iYieldIdx = <<>>

IdleA ==
    /\ env = <<>> /\ uploadDefaults = {}
    /\ aCall = [op |-> "none", url |-> <<>>, args |-> <<>>]
    /\ aRet = [kind |-> "none", err |-> None, val |-> <<>>]
    /\ aCalls = <<>>

(***************************************************************************)
(* urlparse on the locator of a bucket and a key, with extra slashes.      *)
(***************************************************************************)
Strs(S, n) == UNION {[1..k -> S] : k \in 0..n}

UrlChars == {"s", "3", ":", "/", "a"}

\* a bucket name: not empty, no slash
BucketNames == {b \in Strs(UrlChars \ {"/"}, MaxBucketLen) : b # <<>>}

\* a key without empty segments (the empty key included)
KeyNames ==
    {k \in Strs(UrlChars, MaxKeyLen) :
        k = <<>> \/ \A i \in 1..Len(SplitSlash(k)) : SplitSlash(k)[i] # <<>>}

InitUrl ==
    /\ uBucket \in BucketNames
    /\ uKey \in KeyNames
    /\ uUrl = S3Url(uBucket, uKey)
    /\ uRes = NotCalled
    /\ IdleF /\ IdleI /\ IdleA

\* the caller writes one more slash next to a slash of the locator, or at its
\* end: an extra empty segment
InsertSlash ==
    /\ uRes = NotCalled
    /\ Len(uUrl) < Len(S3Url(uBucket, uKey)) + MaxExtraSlashes
    /\ \E p \in 5..Len(uUrl) :
        /\ uUrl[p] = "/" \/ p = Len(uUrl)
        /\ uUrl' = SubSeq(uUrl, 1, p) \o <<"/">> \o Drop(uUrl, p)
    /\ UNCHANGED <<uBucket, uKey, uRes>>
    /\ UNCHANGED <<fVars, iVars, aVars>>

CallUrlparse ==
    /\ uRes = NotCalled
    /\ uRes' = urlparse(uUrl)
    /\ UNCHANGED <<uBucket, uKey, uUrl>>
    /\ UNCHANGED <<fVars, iVars, aVars>>

NextUrl == InsertSlash \/ CallUrlparse

SpecUrl == InitUrl /\ [][NextUrl]_vars

LastSegment(k) == SplitSlash(k)[Len(SplitSlash(k))]

\* C9: urlparse of the locator of bucket b and key k, with or without extra
\* empty segments written into it, returns bucket b, key k and the last
\* segment of k as filename.
C9_RoundTrip ==
    uRes # NotCalled =>
        uRes = [err |-> None, bucket |-> uBucket, key |-> uKey,
                filename |-> LastSegment(uKey)]

\* the same for the locator as built, no slash added (this part holds)
C9_RoundTripPlain ==
    (uRes # NotCalled /\ uUrl = S3Url(uBucket, uKey)) =>
        uRes = [err |-> None, bucket |-> uBucket, key |-> uKey,
                filename |-> LastSegment(uKey)]

(***************************************************************************)
(* find(url, suffix): the generator, one step per list_objects_v2 call,    *)
(* per object of a page and per end of page.                               *)
(*                                                                         *)
(* A response of list_objects_v2 is [hasContents, contents, next]:         *)
(* hasContents is whether the dict has the key 'Contents', next is its     *)
(* 'NextContinuationToken', 0 when the dict has none.  The collaborator    *)
(* serves a script of pages; the token a page returns is the index of the  *)
(* page that follows it.                                                   *)
(***************************************************************************)
FindKeyNames == {<<"a">>, <<"a", "x">>, <<"b", "x">>}

FindUrls == {S3Url(<<"b">>, <<>>), S3Url(<<"b">>, <<"a">>), <<"b", "/", "a">>}

FindSuffixes == {<<>>, <<"x">>}

PageBodies ==
    {[hasContents |-> FALSE, contents |-> <<>>]}
        \cup [hasContents : {TRUE}, contents : Strs(FindKeyNames, MaxPageKeys)]

PageScripts ==
    UNION {{[i \in 1..n |-> [hasContents |-> b[i].hasContents,
                             contents |-> b[i].contents,
                             next |-> IF i < n THEN i + 1 ELSE 0]] :
                b \in [1..n -> PageBodies]} : n \in 1..MaxPages}

\* s3.list_objects_v2(**kwargs): the first page without a token, else the
\* page the token names
ListObjectsV2(pages, token) == IF token = 0 THEN pages[1] ELSE pages[token]

\* key.startswith(parts['key']) and key.endswith(suffix)
KeyMatches(key, prefix, suffix) == StartsWith(key, prefix) /\ EndsWith(key, suffix)

InitFind ==
    /\ fPages \in PageScripts
    /\ fUrl \in FindUrls
    /\ fSuffix \in FindSuffixes
    /\ fPc = "start"
    /\ fParts = NotCalled /\ fToken = 0 /\ fResp = None /\ fIdx = 0
    /\ fOut = <<>> /\ fCalls = <<>>
    /\ IdleU /\ IdleI /\ IdleA

\* lines 112-118: parse the url, build kwargs without a ContinuationToken
FindStart ==
    /\ fPc = "start"
    /\ fParts' = urlparse(fUrl)
    /\ fPc' = IF urlparse(fUrl).err = None THEN "list" ELSE "raised"
    /\ UNCHANGED <<fPages, fUrl, fSuffix, fToken, fResp, fIdx, fOut, fCalls>>
    /\ UNCHANGED <<uVars, iVars, aVars>>

\* lines 123-127: one call; a response without 'Contents' ends the generator
FindList ==
    /\ fPc = "list"
    /\ fCalls' = Append(fCalls, fToken)
    /\ LET resp == ListObjectsV2(fPages, fToken)
       IN  IF resp.hasContents
           THEN fResp' = resp /\ fIdx' = 1 /\ fPc' = "page"
           ELSE fResp' = resp /\ fIdx' = 0 /\ fPc' = "done"
    /\ UNCHANGED <<fPages, fUrl, fSuffix, fParts, fToken, fOut>>
    /\ UNCHANGED <<uVars, iVars, aVars>>

\* lines 129-132: the next object of the page, yielded when it matches
FindObject ==
    /\ fPc = "page"
    /\ fIdx <= Len(fResp.contents)
    /\ fOut' = IF KeyMatches(fResp.contents[fIdx], fParts.key, fSuffix)
               THEN Append(fOut, fResp.contents[fIdx])
               ELSE fOut
    /\ fIdx' = fIdx + 1
    /\ UNCHANGED <<fPages, fUrl, fSuffix, fPc, fParts, fToken, fResp, fCalls>>
    /\ UNCHANGED <<uVars, iVars, aVars>>

\* lines 137-140: forward the page's token, or stop when it has none
FindPageEnd ==
    /\ fPc = "page"
    /\ fIdx > Len(fResp.contents)
    /\ IF fResp.next # 0
       THEN fToken' = fResp.next /\ fPc' = "list"
       ELSE fToken' = fToken /\ fPc' = "done"
    /\ UNCHANGED <<fPages, fUrl, fSuffix, fParts, fResp, fIdx, fOut, fCalls>>
    /\ UNCHANGED <<uVars, iVars, aVars>>

NextFind == FindStart \/ FindList \/ FindObject \/ FindPageEnd

SpecFind == InitFind /\ [][NextFind]_vars

\* the keys of pages i.. of a script, in page order
RECURSIVE KeysFrom(_, _)
KeysFrom(pages, i) ==
    IF i > Len(pages) THEN <<>> ELSE pages[i].contents \o KeysFrom(pages, i + 1)

PrefixOf(url) == urlparse(url).key

Wanted(key) == StartsWith(key, PrefixOf(fUrl)) /\ EndsWith(key, fSuffix)

\* C1: when find has ended, what it yielded is the keys of all pages, in page
\* order, that start with the parsed prefix and end with suffix: each once.
C1_FindYieldsAllPages ==
    fPc = "done" => fOut = SelectSeq(KeysFrom(fPages, 1), Wanted)

\* the page the i-th call returned
Served(i) == ListObjectsV2(fPages, fCalls[i])

\* C2: the first call carries no token, each later call carries the token of
\* the page before it, and find ends only on a page that omits the token.
C2_TokenProtocol ==
    /\ fCalls # <<>> => fCalls[1] = 0
    /\ \A i \in 1..(Len(fCalls) - 1) :
          Served(i).next # 0 /\ fCalls[i + 1] = Served(i).next
    /\ fPc = "done" => Served(Len(fCalls)).next = 0

\* the same where every page has 'Contents' (this part holds)
C2_TokenProtocolWithContents ==
    (\A i \in 1..Len(fPages) : fPages[i].hasContents) => C2_TokenProtocol

\* C1 where every page has 'Contents' (this part holds)
C1_FindYieldsWithContents ==
    (\A i \in 1..Len(fPages) : fPages[i].hasContents) => C1_FindYieldsAllPages

(***************************************************************************)
(* [k for k in find(url, suffix)]: the generator run to its end.           *)
(* The result is the exception of urlparse, the keys yielded and the       *)
(* continuation tokens of the list_objects_v2 calls made.                  *)
(***************************************************************************)
RECURSIVE FindFrom(_, _, _, _)
FindFrom(pages, token, prefix, suffix) ==
    LET resp == ListObjectsV2(pages, token)
        Match(key) == KeyMatches(key, prefix, suffix)
    IN  IF ~resp.hasContents THEN [keys |-> <<>>, calls |-> <<token>>]
        ELSE IF resp.next = 0
        THEN [keys |-> SelectSeq(resp.contents, Match), calls |-> <<token>>]
        ELSE LET rest == FindFrom(pages, resp.next, prefix, suffix)
             IN  [keys |-> SelectSeq(resp.contents, Match) \o rest.keys,
                  calls |-> <<token>> \o rest.calls]

FindAll(pages, url, suffix) ==
    LET parts == urlparse(url)
    IN  IF parts.err # None THEN [err |-> parts.err, keys |-> <<>>, calls |-> <<>>]
        ELSE LET r == FindFrom(pages, 0, parts.key, suffix)
             IN  [err |-> None, keys |-> r.keys, calls |-> r.calls]

\* the generator stepped to its end and FindAll are the same function
FindStepsAgree ==
    /\ fPc = "done" =>
          FindAll(fPages, fUrl, fSuffix) = [err |-> None, keys |-> fOut, calls |-> fCalls]
    /\ fPc = "raised" => FindAll(fPages, fUrl, fSuffix).err = fParts.err

(***************************************************************************)
(* latest_inventory.  An optional argument is <<>> for None and <<v>> for  *)
(* the value v.  A timestamp is the string <<day, "T", time>>; strptime    *)
(* accepts it when day and time are digits of the format, and .date()      *)
(* keeps the day.  A data line is the sequence of its fields, the result   *)
(* of line.replace('"', '').split(','); the manifest's fileSchema is the   *)
(* sequence of its column names, split and stripped.                       *)
(***************************************************************************)
NoneOpt == <<>>

Some(v) == <<v>>

Today == "T"

Yesterday == "Y"

ManifestSuffix == <<"M">>

\* len(keys) == 1 (line 153)
SeveralManifests(keys) == Len(keys) >= 1
ExactlyOne(keys) == Len(keys) = 1

\* the list_objects_v2 calls of one find, as the transport sees them
ListCalls(bucket, prefix, tokens) ==
    [i \in 1..Len(tokens) |->
        [op |-> "list", bucket |-> bucket, key |-> prefix, token |-> tokens[i]]]

GetCall(bucket, key) == [op |-> "get", bucket |-> bucket, key |-> key, token |-> 0]

\* lines 149-152: the listing of one date prefix
ProbeDate(listing, parts, dt) ==
    LET _key == OpJoin(parts.key, <<dt>>)
        _url == S3Url(parts.bucket, _key)
        r == FindAll(listing, _url, ManifestSuffix)
    IN  [keys |-> r.keys,
         calls |-> ListCalls(urlparse(_url).bucket, urlparse(_url).key, r.calls)]

\* lines 145-155: today first, yesterday second; manifest_key or None
LocateManifest(listing, url) ==
    LET parts == urlparse(url)
        today == ProbeDate(listing, parts, Today)
        yesterday == ProbeDate(listing, parts, Yesterday)
    IN  IF parts.err # None
        THEN [err |-> parts.err, manifest_key |-> NoneOpt, calls |-> <<>>]
        ELSE IF ExactlyOne(today.keys)
        THEN [err |-> None, manifest_key |-> Some(today.keys[1]), calls |-> today.calls]
        ELSE IF ExactlyOne(yesterday.keys)
        THEN [err |-> None, manifest_key |-> Some(yesterday.keys[1]),
              calls |-> today.calls \o yesterday.calls]
        ELSE [err |-> None, manifest_key |-> NoneOpt,
              calls |-> today.calls \o yesterday.calls]

\* read(url), lines 92-93: the get_object call it makes
ReadCall(url) == GetCall(urlparse(url).bucket, urlparse(url).key)

\* 'key' of the k-th entry of manifest['files']
Digits == <<"1", "2", "3", "4", "5", "6", "7", "8", "9">>

FileKey(k) == <<"D", Digits[k]>>

\* datetime.strptime(v, "%Y-%m-%dT%H:%M:%S.%fZ").date(): the day, or <<>>
\* when v does not match the format (ValueError)
DayDigits == {"1", "2"}

TimeDigits == {"0", "9"}

ParseDate(v) ==
    IF Len(v) = 3 /\ v[1] \in DayDigits /\ v[2] = "T" /\ v[3] \in TimeDigits
    THEN Some(IF v[1] = "1" THEN 1 ELSE 2)
    ELSE NoneOpt

\* line 177, negated: the record's date is inside the window
ExclusiveWindow(dt, start_date, end_date) ==
    ~((start_date # NoneOpt /\ dt <= start_date[1])
        \/ (end_date # NoneOpt /\ dt > end_date[1]))
InWindow(dt, start_date, end_date) ==
    ~((start_date # NoneOpt /\ dt < start_date[1])
        \/ (end_date # NoneOpt /\ dt > end_date[1]))

\* line 172: {keys[i]: v for i, v in enumerate(fields)}, for fields no longer
\* than keys; a column named twice keeps its last value
LineInfo(keys, fields) ==
    [c \in {keys[i] : i \in 1..Len(fields)} |->
        fields[CHOOSE i \in 1..Len(fields) :
                  keys[i] = c /\ \A j \in (i + 1)..Len(fields) : keys[j] # c]]

Skip == [kind |-> "skip", err |-> None, info |-> <<>>]

Raise(e) == [kind |-> "raise", err |-> e, info |-> <<>>]

Yield(info) == [kind |-> "yield", err |-> None, info |-> info]

\* lines 184-186: the record as yielded
WithUrl(keys, info) ==
    IF (\E i \in 1..Len(keys) : keys[i] = "Bucket") /\ (\E i \in 1..Len(keys) : keys[i] = "Key")
    THEN IF "Bucket" \in DOMAIN info
         THEN Yield(info @@ ("url" :> S3Url(info["Bucket"], info["Key"])))
         ELSE Raise("KeyError")
    ELSE Yield(info)

\* lines 179-186: the prefix and suffix filters, after the date was parsed
FilterKey(keys, info, args) ==
    IF args.prefix # NoneOpt /\ Take(info["Key"], Len(args.prefix[1])) # args.prefix[1]
    THEN Skip
    ELSE IF args.suffix = NoneOpt \/ EndsWith(info["Key"], args.suffix[1])
    THEN WithUrl(keys, info)
    ELSE Skip

\* lines 176-178: parse the timestamp, then the window
LenientDated(keys, info, args) ==
    IF args.datetime_key \notin DOMAIN info THEN Raise("KeyError")
    ELSE LET dt == ParseDate(info[args.datetime_key])
         IN  IF dt = NoneOpt THEN Skip
             ELSE IF ~InWindow(dt[1], args.start_date, args.end_date) THEN Skip
             ELSE FilterKey(keys, info, args)
Dated(keys, info, args) ==
    IF args.datetime_key \notin DOMAIN info THEN Raise("KeyError")
    ELSE LET dt == ParseDate(info[args.datetime_key])
         IN  IF dt = NoneOpt THEN Raise("ValueError")
             ELSE IF ~InWindow(dt[1], args.start_date, args.end_date) THEN Skip
             ELSE FilterKey(keys, info, args)

\* lines 172-186: what one line of a data file does to the generator
ProcessLine(keys, fields, args) ==
    IF Len(fields) > Len(keys) THEN Raise("IndexError")
    ELSE LET info == LineInfo(keys, fields)
         IN  IF "Key" \notin DOMAIN info THEN Skip
             ELSE Dated(keys, info, args)

\* lines 165-186 over the lines of all files, in order: the records yielded,
\* the index of the line each came from, the exception that ended the scan
RECURSIVE ScanFrom(_, _, _, _)
ScanFrom(keys, lines, args, i) ==
    IF i > Len(lines) THEN [err |-> None, out |-> <<>>, idx |-> <<>>]
    ELSE LET o == ProcessLine(keys, lines[i], args)
             rest == ScanFrom(keys, lines, args, i + 1)
         IN  IF o.kind = "raise" THEN [err |-> o.err, out |-> <<>>, idx |-> <<>>]
             ELSE IF o.kind = "yield"
             THEN [err |-> rest.err, out |-> <<o.info>> \o rest.out, idx |-> <<i>> \o rest.idx]
             ELSE rest

\* lines 165-167 and on: the files of the manifest in order, each read with
\* one get_object and scanned; an exception ends the generator
RECURSIVE ScanFiles(_, _, _, _, _)
ScanFiles(keys, files, args, bucket, k) ==
    IF k > Len(files) THEN [err |-> None, out |-> <<>>, calls |-> <<>>]
    ELSE LET call == ReadCall(S3Url(bucket, FileKey(k)))
             r == ScanFrom(keys, files[k], args, 1)
             rest == ScanFiles(keys, files, args, bucket, k + 1)
         IN  IF r.err # None
             THEN [err |-> r.err, out |-> r.out, calls |-> <<call>>]
             ELSE [err |-> rest.err, out |-> r.out \o rest.out,
                   calls |-> <<call>> \o rest.calls]

\* latest_inventory run to its end: the exception if any, the records
\* yielded, the transport calls made
LatestInventoryAll(url, args, listing, keys, files) ==
    LET m == LocateManifest(listing, url)
        bucket == urlparse(url).bucket
    IN  IF m.err # None THEN [err |-> m.err, out |-> <<>>, calls |-> <<>>]
        ELSE IF m.manifest_key = NoneOpt THEN [err |-> None, out |-> <<>>, calls |-> m.calls]
        ELSE LET r == ScanFiles(keys, files, args, bucket, 1)
             IN  [err |-> r.err, out |-> r.out,
                  calls |-> m.calls
                              \o <<ReadCall(S3Url(bucket, m.manifest_key[1]))>>
                              \o r.calls]

(***************************************************************************)
(* The inputs of latest_inventory.                                         *)
(***************************************************************************)
InvKeyNames == {<<"a">>, <<"a", "b">>, <<"b", "a">>}

Stamps == {<<"1", "T", "0">>, <<"2", "T", "9">>, <<"2">>}

Schemas ==
    {<<"Bucket", "Key", "LastModifiedDate">>,
     <<"LastModifiedDate", "Key">>,
     <<"Key", "LastModifiedDate", "Bucket">>}

FieldDomain(keys, i) ==
    IF i > Len(keys) THEN {<<"z">>}
    ELSE IF keys[i] = "Key" THEN InvKeyNames
    ELSE IF keys[i] = "LastModifiedDate" THEN Stamps
    ELSE {<<"b">>}

RECURSIVE LinesOfLen(_, _)
LinesOfLen(keys, n) ==
    IF n = 0 THEN {<<>>}
    ELSE {Append(l, v) : l \in LinesOfLen(keys, n - 1), v \in FieldDomain(keys, n)}

\* the lines a data file of this schema may hold: short, full and with one
\* field too many; ''.split(',') is the line of one empty field
Lines(keys) ==
    {<< <<>> >>} \cup UNION {LinesOfLen(keys, n) : n \in 1..(Len(keys) + 1)}

ArgSets ==
    [prefix : {NoneOpt, Some(<<"a">>)},
     suffix : {NoneOpt, Some(<<"a">>)},
     start_date : {NoneOpt, Some(2)},
     end_date : {NoneOpt, Some(1)},
     datetime_key : {"LastModifiedDate"}]

NoArgs ==
    [prefix |-> NoneOpt, suffix |-> NoneOpt, start_date |-> NoneOpt,
     end_date |-> NoneOpt, datetime_key |-> "LastModifiedDate"]

InvUrls == {S3Url(<<"b">>, <<>>), S3Url(<<"b">>, <<"i">>), <<"b", "/", "i">>}

\* the keys of the bucket under the inventory prefix, in listing order
DateKeys(pk) ==
    <<OpJoin(pk, <<Today, "/", "M">>),
      OpJoin(pk, <<Today, "/", "a">>),
      OpJoin(pk, <<Today, "/", "h", "/", "M">>),
      OpJoin(pk, <<Yesterday, "/", "M">>),
      OpJoin(pk, <<Yesterday, "/", "h", "/", "M">>)>>

RECURSIVE Pick(_, _, _)
Pick(q, S, i) ==
    IF i > Len(q) THEN <<>>
    ELSE (IF i \in S THEN <<q[i]>> ELSE <<>>) \o Pick(q, S, i + 1)

OnePage(q) == <<[hasContents |-> q # <<>>, contents |-> q, next |-> 0]>>

TwoPages(q) ==
    <<[hasContents |-> TRUE, contents |-> <<Head(q)>>, next |-> 2],
      [hasContents |-> TRUE, contents |-> Tail(q), next |-> 0]>>

\* a first page without 'Contents' that carries a token
EmptyFirst(q) ==
    <<[hasContents |-> FALSE, contents |-> <<>>, next |-> 2],
      [hasContents |-> q # <<>>, contents |-> q, next |-> 0]>>

ListingScripts(pk) ==
    UNION {LET q == Pick(DateKeys(pk), S, 1)
           IN  {OnePage(q), EmptyFirst(q)} \cup (IF Len(q) >= 2 THEN {TwoPages(q)} ELSE {})
           : S \in SUBSET (1..5)}

(***************************************************************************)
(* latest_inventory, the generator step by step: locate and read the       *)
(* manifest, read a data file, process a line, end.  The content of a data *)
(* file is chosen when it is read: each file is read once and each line    *)
(* looked at once.  iSeen is the lines processed so far, iYieldIdx the     *)
(* index in iSeen of the line each yielded record came from.               *)
(***************************************************************************)
InitScan ==
    /\ iUrl = S3Url(<<"b">>, <<>>)
    /\ iListing = OnePage(<<DateKeys(<<>>)[1]>>)
    /\ iArgs \in ArgSets
    /\ iSchema \in Schemas
    /\ iPc = "start"
    /\ iErr = None /\ iCalls = <<>> /\ iSeen = <<>> /\ iOut = <<>> /\ iYieldIdx = <<>>
    /\ IdleU /\ IdleF /\ IdleA

IsGet(c) == c.op = "get"

\* the data files read so far (the first get_object is the manifest)
FilesRead == Len(SelectSeq(iCalls, IsGet)) - 1

\* lines 145-161
InvStart ==
    /\ iPc = "start"
    /\ \E m \in {LocateManifest(iListing, iUrl)} :
           IF m.err # None
           THEN iPc' = "raised" /\ iErr' = m.err /\ iCalls' = m.calls
           ELSE IF m.manifest_key = NoneOpt
           THEN iPc' = "done" /\ iErr' = None /\ iCalls' = m.calls
           ELSE /\ iPc' = "files" /\ iErr' = None
                /\ iCalls' = Append(m.calls,
                                    ReadCall(S3Url(urlparse(iUrl).bucket, m.manifest_key[1])))
    /\ UNCHANGED <<iUrl, iArgs, iListing, iSchema, iSeen, iOut, iYieldIdx>>
    /\ UNCHANGED <<uVars, fVars, aVars>>

\* lines 165-167: the next file of manifest['files']
InvReadFile ==
    /\ iPc = "files"
    /\ Len(iSeen) < MaxLines
    /\ iCalls' = Append(iCalls,
                        ReadCall(S3Url(urlparse(iUrl).bucket, FileKey(FilesRead + 1))))
    /\ iPc' = "lines"
    /\ UNCHANGED <<iUrl, iArgs, iListing, iSchema, iErr, iSeen, iOut, iYieldIdx>>
    /\ UNCHANGED <<uVars, fVars, aVars>>

\* lines 168-186: the next line of the file; more: the file has another line
InvLine ==
    /\ iPc = "lines"
    /\ Len(iSeen) < MaxLines
    /\ \E fields \in Lines(iSchema), more \in BOOLEAN :
        \E o \in {ProcessLine(iSchema, fields, iArgs)} :
            /\ iSeen' = Append(iSeen, fields)
            /\ iPc' = IF o.kind = "raise" THEN "raised"
                      ELSE IF more THEN "lines" ELSE "files"
            /\ iErr' = o.err
            /\ iOut' = IF o.kind = "yield" THEN Append(iOut, o.info) ELSE iOut
            /\ iYieldIdx' = IF o.kind = "yield" THEN Append(iYieldIdx, Len(iSeen) + 1)
                            ELSE iYieldIdx
    /\ UNCHANGED <<iUrl, iArgs, iListing, iSchema, iCalls>>
    /\ UNCHANGED <<uVars, fVars, aVars>>

\* line 165: manifest['files'] is exhausted
InvEnd ==
    /\ iPc = "files"
    /\ iPc' = "done"
    /\ UNCHANGED <<iUrl, iArgs, iListing, iSchema, iErr, iCalls, iSeen, iOut, iYieldIdx>>
    /\ UNCHANGED <<uVars, fVars, aVars>>

NextScan == InvStart \/ InvReadFile \/ InvLine \/ InvEnd

SpecScan == InitScan /\ [][NextScan]_vars

\* the generator stepped and ScanFrom are the same function of the lines
InvStepsAgree ==
    LET r == ScanFrom(iSchema, iSeen, iArgs, 1)
    IN  iPc \in {"files", "lines", "done", "raised"} =>
            r.out = iOut /\ r.idx = iYieldIdx /\ r.err = iErr

(***************************************************************************)
(* What the claims say of a data line, in the words of the specification:  *)
(* the fields are zipped with the schema's columns by position.            *)
(***************************************************************************)
HasCol(fields, c) ==
    \E i \in 1..Min(Len(fields), Len(iSchema)) : iSchema[i] = c

Col(fields, c) ==
    fields[CHOOSE i \in 1..Min(Len(fields), Len(iSchema)) :
              iSchema[i] = c /\ \A j \in (i + 1)..Min(Len(fields), Len(iSchema)) : iSchema[j] # c]

WellFormedStamps == {<<d, "T", t>> : d \in {"1", "2"}, t \in {"0", "9"}}

DayOf(stamp) == IF stamp[1] = "1" THEN 1 ELSE 2

CarriesGoodStamp(fields) ==
    HasCol(fields, iArgs.datetime_key) /\ Col(fields, iArgs.datetime_key) \in WellFormedStamps

Qualifies(fields) ==
    /\ HasCol(fields, "Key")
    /\ CarriesGoodStamp(fields)
    /\ iArgs.start_date # NoneOpt => iArgs.start_date[1] <= DayOf(Col(fields, iArgs.datetime_key))
    /\ iArgs.end_date # NoneOpt => DayOf(Col(fields, iArgs.datetime_key)) <= iArgs.end_date[1]
    /\ iArgs.prefix # NoneOpt => StartsWith(Col(fields, "Key"), iArgs.prefix[1])
    /\ iArgs.suffix # NoneOpt => EndsWith(Col(fields, "Key"), iArgs.suffix[1])

RECURSIVE QualifyingFrom(_)
QualifyingFrom(i) ==
    IF i > Len(iSeen) THEN <<>>
    ELSE (IF Qualifies(iSeen[i]) THEN <<i>> ELSE <<>>) \o QualifyingFrom(i + 1)

\* the records yielded are those of the qualifying lines, in line order
YieldsExactlyQualifying ==
    /\ iYieldIdx = QualifyingFrom(1)
    /\ Len(iOut) = Len(iYieldIdx)
    /\ \A j \in 1..Len(iOut) :
          /\ iOut[j]["Key"] = Col(iSeen[iYieldIdx[j]], "Key")
          /\ iOut[j][iArgs.datetime_key] = Col(iSeen[iYieldIdx[j]], iArgs.datetime_key)

Scanning == iPc \in {"files", "lines", "done", "raised"}

SchemaHasUrl ==
    (\E i \in 1..Len(iSchema) : iSchema[i] = "Bucket")
        /\ (\E i \in 1..Len(iSchema) : iSchema[i] = "Key")

\* a line the record of which the code can build and complete
FitsSchema(fields) ==
    /\ Len(fields) <= Len(iSchema)
    /\ (SchemaHasUrl /\ HasCol(fields, "Key")) => HasCol(fields, "Bucket")

BadStampRecord(fields) ==
    /\ HasCol(fields, "Key")
    /\ HasCol(fields, iArgs.datetime_key)
    /\ Col(fields, iArgs.datetime_key) \notin WellFormedStamps

\* C5: a record with a Key column and a malformed timestamp ends the scan at
\* its line with the format error (ValueError; IndexError when the line has
\* more fields than columns), whatever prefix and suffix are; nothing is
\* yielded from that line or after it.
C5_BadStampFails ==
    \A i \in 1..Len(iSeen) :
        BadStampRecord(iSeen[i]) =>
            /\ i = Len(iSeen)
            /\ iPc = "raised"
            /\ iErr = IF Len(iSeen[i]) <= Len(iSchema) THEN "ValueError" ELSE "IndexError"
            /\ \A j \in 1..Len(iYieldIdx) : iYieldIdx[j] < i

\* the scan failed at its second line, a record whose Key the prefix filter
\* would have rejected, after the first line was yielded
C5_Witness ==
    /\ iPc = "raised" /\ iErr = "ValueError"
    /\ Len(iSeen) = 2 /\ iYieldIdx = <<1>>
    /\ BadStampRecord(iSeen[2])
    /\ iArgs.prefix # NoneOpt
    /\ ~StartsWith(Col(iSeen[2], "Key"), iArgs.prefix[1])

(***************************************************************************)
(* latest_inventory run to its end in one step, over the listings of the   *)
(* two date prefixes.                                                      *)
(***************************************************************************)
GoodLine == <<<<"b">>, <<"a">>, <<"1", "T", "0">>>>

BadLine == <<<<"b">>, <<"a">>, <<"2">>>>

\* manifest['files'] with the lines of each file
SmallFiles == {<<>>, <<<<GoodLine>>>>, <<<<GoodLine, GoodLine>>, <<BadLine>>>>}

InitLocate ==
    /\ iUrl \in InvUrls
    /\ iListing \in ListingScripts(urlparse(iUrl).key)
    /\ iArgs = NoArgs
    /\ iSchema = <<"Bucket", "Key", "LastModifiedDate">>
    /\ iPc = "start"
    /\ iErr = None /\ iCalls = <<>> /\ iSeen = <<>> /\ iOut = <<>> /\ iYieldIdx = <<>>
    /\ IdleU /\ IdleF /\ IdleA

RECURSIVE Flatten(_)
Flatten(files) == IF files = <<>> THEN <<>> ELSE Head(files) \o Flatten(Tail(files))

\* the generator consumed to its end: list(latest_inventory(url))
CallLatestInventory ==
    /\ iPc = "start"
    /\ \E files \in SmallFiles :
        \E r \in {LatestInventoryAll(iUrl, iArgs, iListing, iSchema, files)} :
            /\ iPc' = IF r.err = None THEN "done" ELSE "raised"
            /\ iErr' = r.err
            /\ iCalls' = r.calls
            /\ iOut' = r.out
            /\ iSeen' = Flatten(files)
    /\ UNCHANGED <<iUrl, iArgs, iListing, iSchema, iYieldIdx>>
    /\ UNCHANGED <<uVars, fVars, aVars>>

NextLocate == CallLatestInventory

SpecLocate == InitLocate /\ [][NextLocate]_vars

\* the keys find lists under a date prefix that end in 'manifest.json'
DateListing(dt) ==
    FindAll(iListing,
            S3Url(urlparse(iUrl).bucket, OpJoin(urlparse(iUrl).key, <<dt>>)),
            ManifestSuffix).keys

Gets == SelectSeq(iCalls, IsGet)

IsList(c) == c.op = "list"

Lists == SelectSeq(iCalls, IsList)

DatePrefix(dt) == OpJoin(urlparse(iUrl).key, <<dt>>)

\* C3: today's prefix is probed first; with exactly one manifest listed today
\* it is the manifest read and yesterday is not probed; otherwise, with
\* exactly one listed yesterday, that one is read; otherwise nothing is read
\* or yielded and the generator ends without error.
C3_ManifestSelection ==
    (iPc \in {"done", "raised"} /\ urlparse(iUrl).err = None) =>
        /\ Lists # <<>> /\ Lists[1].key = DatePrefix(Today)
        /\ Len(DateListing(Today)) = 1 =>
              /\ Gets # <<>> /\ Gets[1].key = DateListing(Today)[1]
              /\ \A i \in 1..Len(Lists) : Lists[i].key = DatePrefix(Today)
        /\ (Len(DateListing(Today)) # 1 /\ Len(DateListing(Yesterday)) = 1) =>
              /\ Gets # <<>> /\ Gets[1].key = DateListing(Yesterday)[1]
        /\ (Len(DateListing(Today)) # 1 /\ Len(DateListing(Yesterday)) # 1) =>
              /\ Gets = <<>> /\ iOut = <<>> /\ iErr = None /\ iPc = "done"

\* two manifests listed today and one yesterday: yesterday's was read, and
\* records were yielded
C3_Witness ==
    /\ iPc = "done"
    /\ Len(DateListing(Today)) = 2
    /\ Len(DateListing(Yesterday)) = 1
    /\ Gets # <<>> /\ Gets[1].key = DateListing(Yesterday)[1]
    /\ iOut # <<>>

(***************************************************************************)
(* The functions of the module called by a client.  env is os.environ, a   *)
(* function from the names of the variables that are set to their values.  *)
(* A dict of options is a set of <<name, value>> pairs.  aCall is the last *)
(* call, aRet what it returned or raised, aCalls the calls it made on the  *)
(* s3 client.  The outcomes of the s3 client and of the local file system  *)
(* are inputs.                                                             *)
(***************************************************************************)
Return(v) == [kind |-> "return", err |-> None, val |-> v]

Throw(e) == [kind |-> "raise", err |-> e, val |-> <<>>]

\* os.environ.get(name, default)
EnvGet(name, default) == IF name \in DOMAIN env THEN Some(env[name]) ELSE default

\* d[k] = v
DictSet(d, k, v) == {p \in d : p[1] # k} \cup {<<k, v>>}

\* line 192
access_key == EnvGet("AWS_BUCKET_ACCESS_KEY_ID", EnvGet("AWS_ACCESS_KEY_ID", NoneOpt))

\* line 193
secret_key == EnvGet("AWS_BUCKET_SECRET_ACCESS_KEY", EnvGet("AWS_SECRET_ACCESS_KEY", NoneOpt))

\* lines 194-196
Region(aws_region) ==
    IF aws_region # NoneOpt THEN aws_region
    ELSE EnvGet("AWS_BUCKET_REGION", EnvGet("AWS_REGION", Some("eu-central-1")))

\* line 242: a session token that is not empty, and no override access key
SendsToken ==
    /\ "AWS_SESSION_TOKEN" \in DOMAIN env
    /\ env["AWS_SESSION_TOKEN"] # ""
    /\ "AWS_BUCKET_ACCESS_KEY_ID" \notin DOMAIN env

\* lines 232-243: the headers that are signed
SignedHeaders(bucket, args) ==
    [n \in {"host", "x-amz-content-sha256", "x-amz-date"} |->
        IF n = "host" THEN <<bucket, ".s3.amazonaws.com">>
        ELSE IF n = "x-amz-content-sha256" THEN <<"UNSIGNED-PAYLOAD">>
        ELSE <<"amzdate">>]
    @@ (IF args.requester_pays THEN "x-amz-request-payer" :> <<"requester">> ELSE <<>>)
    @@ (IF args.public THEN "x-amz-acl" :> <<"public-read">> ELSE <<>>)
    @@ (IF SendsToken THEN "x-amz-security-token" :> <<env["AWS_SESSION_TOKEN"]>> ELSE <<>>)

\* sorted(headers): the header names in lexicographic order
HeaderOrder ==
    <<"host", "x-amz-acl", "x-amz-content-sha256", "x-amz-date",
      "x-amz-request-payer", "x-amz-security-token">>

SortedNames(headers) ==
    LET In(n) == n \in DOMAIN headers IN SelectSeq(HeaderOrder, In)

\* lines 244-256: the Authorization header; an HMAC is the pair of its key
\* and its message
Authorization(parts, args, headers) ==
    LET region == Region(args.aws_region)[1]
        scope == <<"datestamp", region, "s3", "aws4_request">>
        canonical_request ==
            [rtype |-> args.rtype, uri |-> <<"/">> \o parts.key,
             headers |-> headers, signed_headers |-> SortedNames(headers)]
    IN  [credential |-> <<access_key[1], scope>>,
         signed_headers |-> SortedNames(headers),
         signature |-> [key |-> <<secret_key[1], scope>>,
                        msg |-> <<"amzdate", scope, canonical_request>>]]

\* get_presigned_url(url, aws_region, rtype, public, requester_pays, content_type)
get_presigned_url(url, args) ==
    IF access_key = NoneOpt \/ secret_key = NoneOpt
    THEN Return([url |-> url, signed |-> FALSE, headers |-> <<>>])
    ELSE LET parts == urlparse(url)
             headers == SignedHeaders(parts.bucket, args)
         IN  IF parts.err # None THEN Throw(parts.err)
             ELSE Return(
                    [url |-> <<"https://">> \o parts.bucket \o <<".s3.amazonaws.com", "/">>
                                 \o parts.key,
                     signed |-> TRUE,
                     headers |->
                        headers
                        @@ ("Authorization" :> Authorization(parts, args, headers))
                        @@ (IF args.content_type # NoneOpt
                            THEN "content-type" :> args.content_type[1] ELSE <<>>)])

\* line 39: the default region of s3_to_https
DefaultRegion == EnvGet("AWS_REGION", EnvGet("AWS_DEFAULT_REGION", Some("us-east-1")))

(***************************************************************************)
(* The inputs of the calls.                                                *)
(***************************************************************************)
ApiUrls ==
    {S3Url(<<"b">>, <<"k">>), S3Url(<<"b">>, <<>>), <<"b", "/", "k">>,
     <<"s", "3", ":", "/", "b">>}

CredentialVars ==
    {"AWS_BUCKET_ACCESS_KEY_ID", "AWS_BUCKET_SECRET_ACCESS_KEY",
     "AWS_ACCESS_KEY_ID", "AWS_SECRET_ACCESS_KEY"}

RegionVars == {"AWS_BUCKET_REGION", "AWS_REGION"}

\* the environments: any of the credential variables set, the session token
\* unset, empty or not, at most one of the region variables set
Environments ==
    {[n \in c \cup t \cup r |-> IF n \in t THEN tok ELSE n] :
        c \in SUBSET CredentialVars,
        t \in SUBSET {"AWS_SESSION_TOKEN"},
        tok \in {"", "token"},
        r \in {{}} \cup {{v} : v \in RegionVars}}

PresignArgs ==
    [aws_region : {NoneOpt, Some("us-west-2")}, rtype : {"GET"}, public : BOOLEAN,
     requester_pays : BOOLEAN, content_type : {NoneOpt, Some("text/plain")}]

ExtraDicts == {{}, {<<"ACL", "public-read">>}, {<<"ContentType", "text/plain">>}}

FileNames == {<<"f">>, <<"g">>}

NoCall == [op |-> "none", url |-> <<>>, args |-> <<>>]

NoRet == [kind |-> "none", err |-> None, val |-> <<>>]

Fresh == aCall.op = "none"

InitApi ==
    /\ env \in Environments
    /\ uploadDefaults = {}
    /\ aCall = NoCall /\ aRet = NoRet /\ aCalls = <<>>
    /\ IdleU /\ IdleF /\ IdleI

Called(op, url, args) == aCall' = [op |-> op, url |-> url, args |-> args]

Rest == UNCHANGED env /\ UNCHANGED <<uVars, fVars, iVars>>

\* urlparse(url)
CallParse ==
    /\ Fresh
    /\ \E url \in ApiUrls :
        \E parts \in {urlparse(url)} :
        /\ Called("urlparse", url, <<>>)
        /\ aRet' = IF parts.err # None THEN Throw(parts.err) ELSE Return(parts)
        /\ aCalls' = <<>>
    /\ UNCHANGED uploadDefaults /\ Rest

\* s3_to_https(url), lines 39-42
CallS3ToHttps ==
    /\ Fresh
    /\ \E url \in ApiUrls :
        \E parts \in {urlparse(url)} :
            /\ Called("s3_to_https", url, <<>>)
            /\ aRet' = IF parts.err # None THEN Throw(parts.err)
                       ELSE Return(<<"https://">> \o parts.bucket
                                     \o <<".s3.", DefaultRegion[1], ".amazonaws.com/">>
                                     \o parts.key)
            /\ aCalls' = <<>>
    /\ UNCHANGED uploadDefaults /\ Rest

\* exists(url), lines 45-54; head: what head_object does
CallExists ==
    /\ Fresh
    /\ \E url \in ApiUrls, head \in {"ok", "404", "403"} :
        \E parts \in {urlparse(url)} :
            /\ Called("exists", url, <<>>)
            /\ IF parts.err # None
               THEN aRet' = Throw(parts.err) /\ aCalls' = <<>>
               ELSE /\ aCalls' = <<[op |-> "head_object", bucket |-> parts.bucket,
                                    key |-> parts.key]>>
                    /\ aRet' = IF head = "ok" THEN Return(TRUE)
                               ELSE IF head = "404" THEN Return(FALSE)
                               ELSE Throw("ClientError")
    /\ UNCHANGED uploadDefaults /\ Rest

\* upload(filename, uri, public, extra), lines 57-66.  given is the caller's
\* extra, <<>> when the caller leaves it to the default; opened is whether
\* open(filename) succeeds.  The default dict is one object for all calls.
upload(filename, uri, public, given, opened) ==
    LET s3_uri == urlparse(uri)
        extra0 == IF given = NoneOpt THEN uploadDefaults ELSE given[1]
        extra == IF public THEN DictSet(extra0, "ACL", "public-read") ELSE extra0
    IN  /\ Called("upload", uri, [filename |-> filename, public |-> public, given |-> given])
        /\ IF s3_uri.err # None
           THEN aRet' = Throw(s3_uri.err) /\ aCalls' = <<>> /\ UNCHANGED uploadDefaults
           ELSE /\ uploadDefaults' = IF given = NoneOpt THEN extra ELSE uploadDefaults
                /\ IF ~opened
                   THEN aRet' = Throw("FileNotFoundError") /\ aCalls' = <<>>
                   ELSE /\ aCalls' = <<[op |-> "upload_fileobj", bucket |-> s3_uri.bucket,
                                        key |-> s3_uri.key, ExtraArgs |-> extra]>>
                        /\ aRet' = Return(Scheme \o OpJoin(s3_uri.bucket, s3_uri.key))

CallUpload ==
    /\ Fresh
    /\ \E filename \in FileNames, uri \in ApiUrls, public \in BOOLEAN,
          given \in {NoneOpt} \cup {Some(d) : d \in ExtraDicts}, opened \in BOOLEAN :
        upload(filename, uri, public, given, opened)
    /\ Rest

\* download(uri, path), lines 69-87; got: whether download_fileobj succeeds
CallDownload ==
    /\ Fresh
    /\ \E uri \in ApiUrls, path \in {<<>>, <<"d">>}, got \in BOOLEAN :
        \E s3_uri \in {urlparse(uri)} :
            /\ Called("download", uri, path)
            /\ IF s3_uri.err # None
               THEN aRet' = Throw(s3_uri.err) /\ aCalls' = <<>>
               ELSE /\ aCalls' = <<[op |-> "download_fileobj", bucket |-> s3_uri.bucket,
                                    key |-> s3_uri.key]>>
                    /\ aRet' = IF got THEN Return(OpJoin(path, s3_uri.filename))
                               ELSE Throw("ClientError")
    /\ UNCHANGED uploadDefaults /\ Rest

\* read(url), lines 90-97; got: whether get_object succeeds
CallRead ==
    /\ Fresh
    /\ \E url \in ApiUrls, got \in BOOLEAN :
        \E parts \in {urlparse(url)} :
            /\ Called("read", url, <<>>)
            /\ IF parts.err # None
               THEN aRet' = Throw(parts.err) /\ aCalls' = <<>>
               ELSE /\ aCalls' = <<ReadCall(url)>>
                    /\ aRet' = IF got THEN Return(<<"body">>) ELSE Throw("ClientError")
    /\ UNCHANGED uploadDefaults /\ Rest

ApiListings ==
    {OnePage(<<>>),
     OnePage(<<<<"k">>, <<Today, "/", "M">>>>),
     TwoPages(<<<<"k">>, <<"k", "/", Today, "/", "M">>>>)}

\* list(find(url, suffix))
CallFind ==
    /\ Fresh
    /\ \E url \in ApiUrls, suffix \in {<<>>, <<"M">>}, pages \in ApiListings :
        \E r \in {FindAll(pages, url, suffix)} :
            /\ Called("find", url, suffix)
            /\ aRet' = IF r.err # None THEN Throw(r.err) ELSE Return(r.keys)
            /\ aCalls' = ListCalls(urlparse(url).bucket, urlparse(url).key, r.calls)
    /\ UNCHANGED uploadDefaults /\ Rest

\* list(latest_inventory(url))
CallInventory ==
    /\ Fresh
    /\ \E url \in ApiUrls, pages \in ApiListings, files \in SmallFiles :
        \E r \in {LatestInventoryAll(url, NoArgs, pages,
                                       <<"Bucket", "Key", "LastModifiedDate">>, files)} :
            /\ Called("latest_inventory", url, <<>>)
            /\ aRet' = IF r.err # None THEN Throw(r.err) ELSE Return(r.out)
            /\ aCalls' = r.calls
    /\ UNCHANGED uploadDefaults /\ Rest

\* get_presigned_url(url, ...)
CallPresign ==
    /\ Fresh
    /\ \E url \in ApiUrls, args \in PresignArgs :
        /\ Called("get_presigned_url", url, args)
        /\ aRet' = get_presigned_url(url, args)
        /\ aCalls' = <<>>
    /\ UNCHANGED uploadDefaults /\ Rest

NextApi ==
    \/ CallParse \/ CallS3ToHttps \/ CallExists \/ CallUpload \/ CallDownload
    \/ CallRead \/ CallFind \/ CallInventory \/ CallPresign

SpecApi == InitApi /\ [][NextApi]_vars

(***************************************************************************)
(* upload called again and again in one process.                           *)
(***************************************************************************)
InitUpload ==
    /\ env = <<>>
    /\ uploadDefaults = {}
    /\ aCall = NoCall /\ aRet = NoRet /\ aCalls = <<>>
    /\ IdleU /\ IdleF /\ IdleI

CallUploadAgain ==
    /\ \E filename \in FileNames, uri \in ApiUrls, public \in BOOLEAN,
          given \in {NoneOpt} \cup {Some(d) : d \in ExtraDicts}, opened \in BOOLEAN :
        upload(filename, uri, public, given, opened)
    /\ Rest

NextUpload == CallUploadAgain

SpecUpload == InitUpload /\ [][NextUpload]_vars

PublicAcl == <<"ACL", "public-read">>

\* C10: whatever calls came before, an upload that reaches the s3 client
\* sends the 'public-read' ACL only when it asks for public=True itself or
\* its caller's extra holds it; with public=False and no extra it sends no
\* ACL option.
C10_UploadsIndependent ==
    (aCall.op = "upload" /\ aCalls # <<>>) =>
        /\ PublicAcl \in aCalls[1].ExtraArgs =>
              \/ aCall.args.public
              \/ aCall.args.given # NoneOpt /\ PublicAcl \in aCall.args.given[1]
        /\ (~aCall.args.public /\ aCall.args.given = NoneOpt) =>
              \A p \in aCalls[1].ExtraArgs : p[1] # "ACL"

(***************************************************************************)
(* The claims on get_presigned_url and on invalid URIs.                    *)
(***************************************************************************)
IsSet(name) == name \in DOMAIN env

OverrideSlot == IsSet("AWS_BUCKET_ACCESS_KEY_ID") /\ IsSet("AWS_BUCKET_SECRET_ACCESS_KEY")

DefaultSlot == IsSet("AWS_ACCESS_KEY_ID") /\ IsSet("AWS_SECRET_ACCESS_KEY")

Presigned == aCall.op = "get_presigned_url"

Signed == Presigned /\ aRet.kind = "return" /\ aRet.val.signed

Unsigned ==
    Presigned /\ aRet.kind = "return" /\ ~aRet.val.signed /\ aRet.val.url = aCall.url
        /\ aRet.val.headers = <<>>

\* C6: credentials are resolved per slot: with neither the override slot nor
\* the default slot holding both keys the url is returned unsigned, and a
\* request is signed only when one slot holds both keys.
C6_UnsignedWithoutSlot ==
    (Presigned /\ Take(aCall.url, 5) = Scheme) =>
        /\ (~OverrideSlot /\ ~DefaultSlot) => Unsigned
        /\ Signed => (OverrideSlot \/ DefaultSlot)

\* what the code resolves: each key by itself, override variable first
AccessResolved == IsSet("AWS_BUCKET_ACCESS_KEY_ID") \/ IsSet("AWS_ACCESS_KEY_ID")

SecretResolved == IsSet("AWS_BUCKET_SECRET_ACCESS_KEY") \/ IsSet("AWS_SECRET_ACCESS_KEY")

\* (holds) unsigned exactly when one of the two keys is resolved from neither
\* of its variables
C6_UnsignedWithoutKey ==
    Presigned => (Unsigned <=> ~(AccessResolved /\ SecretResolved))

TokenHeader == "x-amz-security-token"

CarriesToken ==
    /\ TokenHeader \in DOMAIN aRet.val.headers
    /\ \E i \in 1..Len(aRet.val.headers["Authorization"].signed_headers) :
          aRet.val.headers["Authorization"].signed_headers[i] = TokenHeader

TokenExists == IsSet("AWS_SESSION_TOKEN") /\ env["AWS_SESSION_TOKEN"] # ""

\* the access key or the secret key of the signature is the override slot's
OverrideUsed == IsSet("AWS_BUCKET_ACCESS_KEY_ID") \/ IsSet("AWS_BUCKET_SECRET_ACCESS_KEY")

\* C7: a signed result carries the session-token header, signed, if and only
\* if a session token exists and neither key came from the override slot.
C7_TokenOnlyWithDefaultSlot ==
    Signed => (CarriesToken <=> (TokenExists /\ ~OverrideUsed))

\* (holds) the same with the override slot judged by its access key alone
C7_TokenByAccessKeyAlone ==
    Signed => (CarriesToken <=> (TokenExists /\ ~IsSet("AWS_BUCKET_ACCESS_KEY_ID")))

InvalidUri == aCall.op # "none" /\ Take(aCall.url, 5) # Scheme

RaisedInvalid == aRet.kind = "raise" /\ aRet.err = "InvalidS3Url" /\ aCalls = <<>>

====
